---------------------------- MODULE Spec2Model ----------------------------
(***************************************************************************)
(* A model of the scanner core of semantic_organizer                       *)
(* (src/semantic_organizer/scanner.py): the streaming JSON writer          *)
(* write_json_array_stream with its thread pool and FIFO buffer, and the   *)
(* deterministic directory walker Scanner._walk_directory.                 *)
(*                                                                         *)
(* A file name is a sequence of one-character strings, a relative path a   *)
(* sequence of names.  The text written to the output file is kept as the  *)
(* sequence of handle.write calls that succeeded.                          *)
(***************************************************************************)
EXTENDS Integers, Sequences, FiniteSets, TLC

(***************************************************************************)
(* Bounds of the model.                                                    *)
(***************************************************************************)
\* entries the abstract iterator of SpecStream yields at most
MaxEntries == 9
\* annotations given to plan_operations at most
MaxOps == 2
\* lines the history file holds at most before append_to_history is called
MaxLines == 2
\* largest checksum_workers value tried
MaxWorkers == 2
\* I/O failures (digest, write, submit, iterator) injected into one run at most
MaxFaults == 1
\* symbolic links the operating system follows in one path before it gives up
\* with ELOOP (40 on Linux)
MaxLinkDepth == 2

VARIABLES
    checksum_enabled,   \* parameter of write_json_array_stream
    checksum_workers,   \* parameter of write_json_array_stream
    on_error,           \* parameter: "fail" or "skip"
    follow_symlinks,    \* parameter of the walk
    root_kind,          \* what input_dir names: "dir", "file" or "missing"
    output_dir,         \* TRUE when the output directory exists
    pc,                 \* position of the controlling flow
    out,                \* the handle.write calls that succeeded, in order
    first,              \* the closure variable `first` of emit
    written,            \* local counter
    skipped,            \* local counter
    buffer,             \* FIFO list of (file_path, relative_path, future)
    futures,            \* the futures of the pool, in submission order
    cur,                \* loop variable of `for ... in entries` (relative path)
    nextItem,           \* what the entries iterator hands over at the next pull
    trace,              \* history: every entry pulled, with its outcomes
    error,              \* the exception that propagates, NoError when none
    faults,             \* failures injected so far
    tree,               \* the directory tree: [files, dirs], sets of relative paths
    exclude_patterns,   \* Scanner.exclude_patterns
    recursive,          \* parameter of the walk
    stack,              \* the frames of the _walk_directory generators
    listed,             \* history: the directories os.scandir was called on
    walk_errors,        \* history: the errors the walker gave to _handle_error
    scanned_files,      \* the list scan_directory builds
    fs,                 \* the filesystem the organizer works on: path -> node
    dry_run,            \* Executor.dry_run
    annotations,        \* the approved annotations given to plan_operations
    operations,         \* the list plan_operations builds
    job,                \* position of the organizer
    target_path,        \* local of compute_target_path
    base,               \* local of compute_target_path
    ext,                \* local of compute_target_path
    counter,            \* local of compute_target_path
    results,            \* what execute_operation returned, call by call
    history_file,       \* History.md: [exists, text]
    metadata,           \* the metadata given to append_to_history
    calls,              \* finished calls of append_to_history
    after_one           \* history: the file after the first call

wvars == <<checksum_enabled, checksum_workers, on_error, follow_symlinks, root_kind,
           output_dir, pc, out, first, written, skipped, buffer, futures, cur, nextItem,
           trace, error, faults>>

walker == <<tree, exclude_patterns, recursive, stack, listed, walk_errors, scanned_files>>

organizer == <<fs, dry_run, annotations, operations, job, target_path, base, ext,
               counter, results>>

history == <<history_file, metadata, calls, after_one>>

vars == <<wvars, walker, organizer, history>>

(***************************************************************************)
(* Names, paths and their string form.                                     *)
(***************************************************************************)
Letters == <<"a", "b", "c", "d", "e", "f", "g", "h", "i", "j", "k", "l", "m", "n">>

Sep == "/"

RootName == <<"r">>

RECURSIVE Join(_)
\* str(Path): the names joined by the separator
Join(p) ==
    IF Len(p) = 0 THEN <<>>
    ELSE IF Len(p) = 1 THEN p[1]
    ELSE p[1] \o <<Sep>> \o Join(Tail(p))

\* Path(entry.path): the scanned directory joined with the entry name
Abs(rel) == <<RootName>> \o rel

Parent(rel) == SubSeq(rel, 1, Len(rel) - 1)

\* the hex digest of the bytes of one file; files have pairwise distinct content
compute_md5(file_path) == <<"#">> \o Join(file_path)

\* a record that keeps only the base name as complete_path
make_record_basename(relative_path, checksum) ==
    [path          |-> IF Len(Parent(relative_path)) = 0 THEN <<>>
                       ELSE Join(Parent(relative_path)),
     filename      |-> relative_path[Len(relative_path)],
     complete_path |-> relative_path[Len(relative_path)],
     checksum      |-> checksum]

make_record(relative_path, checksum) ==
    [path          |-> IF Len(Parent(relative_path)) = 0 THEN <<>>
                       ELSE Join(Parent(relative_path)),
     filename      |-> relative_path[Len(relative_path)],
     complete_path |-> Join(relative_path),
     checksum      |-> checksum]

(***************************************************************************)
(* What the output file holds: one token per successful handle.write.      *)
(***************************************************************************)
NoRecord == make_record(<<<<>>>>, <<>>)

OpenTok  == [t |-> "[",   r |-> NoRecord]
SepTok   == [t |-> ",",   r |-> NoRecord]
CloseTok == [t |-> "]",   r |-> NoRecord]
RecTok(record) == [t |-> "rec", r |-> record]

NoError == [kind |-> "none", path |-> <<>>]
Err(kind, path) == [kind |-> kind, path |-> path]

Range(s) == {s[i] : i \in 1..Len(s)}

Max(a, b) == IF a >= b THEN a ELSE b

\* a depth one pair larger
pipeline_depth_plus_one == IF checksum_workers > 1 THEN Max(4, checksum_workers * 4) + 1 ELSE 0

\* line 339
pipeline_depth == IF checksum_workers > 1 THEN Max(4, checksum_workers * 4) ELSE 0


multi == checksum_enabled /\ checksum_workers > 1

(***************************************************************************)
(* Error policy and the emit closure.                                      *)
(***************************************************************************)
\* an error handler that logs under either policy
handle_error_log_only(policy, kind, path) == NoError

\* _handle_error: the exception it raises, NoError when it only logs
handle_error(policy, kind, path) ==
    IF policy = "fail" THEN Err(kind, path) ELSE NoError

\* the handle.write call of emit that may raise: the separator (only written
\* when not first) or the record
WriteFails(isFirst) == {"none", "rec"} \cup (IF isFirst THEN {} ELSE {"sep"})

\* an emit that counts the record before it writes it
emit_count_before_write(w, record, wfail) ==
    IF ~w.first /\ wfail = "sep"
    THEN [out |-> w.out, first |-> w.first, written |-> w.written, ok |-> FALSE]
    ELSE LET out1 == IF w.first THEN w.out ELSE Append(w.out, SepTok)
         IN IF wfail = "rec"
            THEN [out |-> out1, first |-> FALSE, written |-> w.written + 1, ok |-> FALSE]
            ELSE [out |-> Append(out1, RecTok(record)), first |-> FALSE,
                  written |-> w.written + 1, ok |-> TRUE]

\* emit(record) on w = [out, first, written, skipped]; wfail names the write
\* that raises.  ok is FALSE when emit raised.
emit(w, record, wfail) ==
    IF ~w.first /\ wfail = "sep"
    THEN [out |-> w.out, first |-> w.first, written |-> w.written, ok |-> FALSE]
    ELSE LET out1 == IF w.first THEN w.out ELSE Append(w.out, SepTok)
         IN IF wfail = "rec"
            THEN [out |-> out1, first |-> FALSE, written |-> w.written, ok |-> FALSE]
            ELSE [out |-> Append(out1, RecTok(record)), first |-> FALSE,
                  written |-> w.written + 1, ok |-> TRUE]

\* the block without `skipped += 1` in its handler
process_uncounted(w, rel, digest_ok, checksum, wfail, kind, path) ==
    IF ~digest_ok
    THEN [out |-> w.out, first |-> w.first, written |-> w.written,
          skipped |-> w.skipped, exc |-> handle_error(on_error, kind, path)]
    ELSE LET e == emit(w, make_record(rel, checksum), wfail)
         IN [out |-> e.out, first |-> e.first, written |-> e.written,
             skipped |-> w.skipped,
             exc |-> IF e.ok THEN NoError ELSE handle_error(on_error, kind, path)]

\* One `try: checksum = ...; emit(make_record(...)) except Exception: skipped += 1;
\* _handle_error(...)` block.  exc is the exception leaving the block.
process(w, rel, digest_ok, checksum, wfail, kind, path) ==
    IF ~digest_ok
    THEN [out |-> w.out, first |-> w.first, written |-> w.written,
          skipped |-> w.skipped + 1, exc |-> handle_error(on_error, kind, path)]
    ELSE LET e == emit(w, make_record(rel, checksum), wfail)
         IN [out |-> e.out, first |-> e.first, written |-> e.written,
             skipped |-> IF e.ok THEN w.skipped ELSE w.skipped + 1,
             exc |-> IF e.ok THEN NoError ELSE handle_error(on_error, kind, path)]

\* The handler of line 375: skipped += 1; _handle_error(..."Failed scheduling
\* hashing for: {file_path}")
scheduling_failed(r, file_path) ==
    [r EXCEPT !.skipped = @ + 1,
              !.exc = handle_error(on_error, "schedule", file_path)]

\* The `except Exception` of line 375 is around the whole body of the for
\* loop: an exception leaving the inner block of the flush is caught again.
outer_except(r, file_path) ==
    IF r.exc = NoError THEN r ELSE scheduling_failed(r, file_path)

\* the body of the sequential loop for one entry (lines 389-394)
seq_item(w, rel, digest_ok, enabled, wfail) ==
    process(w, rel, digest_ok,
            IF enabled THEN compute_md5(Abs(rel)) ELSE <<>>,
            wfail, "process", Abs(rel))

W == [out |-> out, first |-> first, written |-> written, skipped |-> skipped,
      exc |-> NoError]

SetW(r) ==
    /\ out' = r.out
    /\ first' = r.first
    /\ written' = r.written
    /\ skipped' = r.skipped

(***************************************************************************)
(* The pool and its futures.                                               *)
(***************************************************************************)
Done(f) == f.st \in {"ok", "err"}

\* Future.result() of a finished future
result(f) == [ok |-> f.st = "ok", value |-> compute_md5(f.arg)]

\* a pool whose threads stay taken by the jobs they have finished
Unfinished_all(upto) == 1..upto

\* the jobs among the first `upto` that are queued or running
Unfinished(upto) == {j \in 1..upto : ~Done(futures[j])}

\* a consumer that takes whichever buffered digest finished last in the buffer
pop_index_completed(buf) ==
    IF \E i \in 1..Len(buf) : Done(futures[buf[i].fut])
    THEN CHOOSE i \in 1..Len(buf) :
            /\ Done(futures[buf[i].fut])
            /\ \A j \in (i + 1)..Len(buf) : ~Done(futures[buf[j].fut])
    ELSE 1

\* a consumer that takes the pair submitted last
pop_index_newest(buf) == Len(buf)

\* buffer.pop(0)
pop_index(buf) == 1

\* waiting on `future` (the job just submitted) instead of `old_future`
old_future_latest(buf, i) == futures[Len(futures)]

\* old_future of the popped tuple
old_future(buf, i) == futures[buf[i].fut]

\* a drain loop that stops one pair early
buffer_drained_early(buf) == Len(buf) <= 1

\* `while buffer:` of line 379 has ended
buffer_drained(buf) == buf = <<>>

RemoveAt(s, i) == SubSeq(s, 1, i - 1) \o SubSeq(s, i + 1, Len(s))

SetOutcome(i, dig, wr) ==
    trace' = [trace EXCEPT ![i].dig = dig, ![i].wr = wr]

Fault(b) == faults' = IF b THEN faults + 1 ELSE faults

CanFail == faults < MaxFaults

NoItem == [k |-> "none", rel |-> <<>>]
Item(k, rel) == [k |-> k, rel |-> rel]

\* the parameters, and the part of the environment that neither
\* write_json_array_stream nor the walker changes
cfg == <<checksum_enabled, checksum_workers, on_error, follow_symlinks, root_kind,
         output_dir, organizer, history>>

(***************************************************************************)
(* write_json_array_stream, one action per step of the controlling flow.   *)
(***************************************************************************)
\* the organizer is not part of a scan
NoOrganizer ==
    /\ fs = <<>>
    /\ dry_run = TRUE
    /\ annotations = <<>>
    /\ operations = <<>>
    /\ job = "idle"
    /\ target_path = <<>>
    /\ base = <<>>
    /\ ext = <<>>
    /\ counter = 0
    /\ results = <<>>

\* the history tool is not part of a scan or of an organizer run
NoHistory ==
    /\ history_file = [exists |-> FALSE, text |-> <<>>]
    /\ metadata = <<>>
    /\ calls = 0
    /\ after_one = [exists |-> FALSE, text |-> <<>>]

InitWriter ==
    /\ out = <<>>
    /\ first = TRUE
    /\ written = 0
    /\ skipped = 0
    /\ buffer = <<>>
    /\ futures = <<>>
    /\ cur = <<>>
    /\ nextItem = NoItem
    /\ trace = <<>>
    /\ error = NoError
    /\ faults = 0

\* lines 341-344: open the file, write "[\n"
Open ==
    /\ pc = "start"
    /\ \E fail \in BOOLEAN :
        /\ fail => CanFail
        /\ Fault(fail)
        /\ IF fail
           THEN /\ pc' = "raised"
                /\ error' = Err("write", <<>>)
                /\ UNCHANGED <<out, first>>
           ELSE /\ pc' = "loop"
                /\ out' = <<OpenTok>>
                /\ first' = TRUE
                /\ UNCHANGED error
    /\ UNCHANGED <<cfg, walker, written, skipped, buffer, futures, cur, nextItem, trace>>

\* lines 358-363 and 375-377: the for loop takes an entry, submits its digest
\* job and appends the pair to the buffer
Submit ==
    /\ pc = "loop"
    /\ multi
    /\ nextItem.k = "entry"
    /\ cur' = nextItem.rel
    /\ nextItem' = NoItem
    /\ \E sfail \in BOOLEAN :
        /\ sfail => CanFail
        /\ Fault(sfail)
        /\ IF sfail
           THEN LET r == scheduling_failed(W, Abs(nextItem.rel))
                IN /\ SetW(r)
                   /\ error' = r.exc
                   /\ pc' = IF r.exc # NoError THEN "shutdown" ELSE "loop"
                   /\ trace' = Append(trace, [rel |-> nextItem.rel, dig |-> "nosched",
                                              wr |-> "none"])
                   /\ UNCHANGED <<buffer, futures>>
           ELSE /\ futures' = Append(futures, [arg |-> Abs(nextItem.rel), st |-> "pending"])
                /\ buffer' = Append(buffer, [path |-> Abs(nextItem.rel), rel |-> nextItem.rel,
                                             fut |-> Len(futures) + 1,
                                             idx |-> Len(trace) + 1])
                /\ trace' = Append(trace, [rel |-> nextItem.rel, dig |-> "none",
                                           wr |-> "none"])
                /\ pc' = IF Len(buffer) + 1 >= pipeline_depth THEN "flush" ELSE "loop"
                /\ UNCHANGED <<out, first, written, skipped, error>>
    /\ UNCHANGED <<cfg, walker>>

\* lines 363-374: the buffer is full; pop the head, wait for its digest, emit
FlushHead ==
    /\ pc = "flush"
    /\ Len(buffer) >= pipeline_depth
    /\ LET i == pop_index(buffer)
           h == buffer[i]
           f == old_future(buffer, i)
       IN /\ Done(f)
          /\ \E wf \in (IF f.st = "ok" THEN WriteFails(first) ELSE {"none"}) :
              /\ (wf # "none") => CanFail
              /\ Fault(wf # "none")
              /\ LET res == result(f)
                     r == outer_except(
                            process(W, h.rel, res.ok, res.value, wf, "hash", h.path),
                            Abs(cur))
                 IN /\ SetW(r)
                    /\ error' = r.exc
                    /\ pc' = IF r.exc # NoError THEN "shutdown"
                             ELSE IF Len(buffer) - 1 >= pipeline_depth THEN "flush"
                             ELSE "loop"
              /\ SetOutcome(h.idx, f.st, wf)
          /\ buffer' = RemoveAt(buffer, i)
    /\ UNCHANGED <<cfg, walker, futures, cur, nextItem>>

\* lines 379-386: after the traversal, drain the buffer in order
DrainHead ==
    /\ pc = "drain"
    /\ ~buffer_drained(buffer)
    /\ LET i == pop_index(buffer)
           h == buffer[i]
           f == old_future(buffer, i)
       IN /\ Done(f)
          /\ \E wf \in (IF f.st = "ok" THEN WriteFails(first) ELSE {"none"}) :
              /\ (wf # "none") => CanFail
              /\ Fault(wf # "none")
              /\ LET res == result(f)
                     r == process(W, h.rel, res.ok, res.value, wf, "hash", h.path)
                 IN /\ SetW(r)
                    /\ error' = r.exc
                    /\ pc' = IF r.exc # NoError THEN "shutdown" ELSE "drain"
              /\ SetOutcome(h.idx, f.st, wf)
          /\ buffer' = RemoveAt(buffer, i)
    /\ UNCHANGED <<cfg, walker, futures, cur, nextItem>>

\* leaving the pool without waiting for its jobs
shutdown_nowait(futs) == TRUE

\* ThreadPoolExecutor.__exit__ is shutdown(wait=True): it returns when every
\* submitted job has run
shutdown_wait(futs) == \A k \in 1..Len(futs) : Done(futs[k])

\* line 357, normal exit of `with ThreadPoolExecutor`: shutdown(wait=True)
ExitPool ==
    /\ pc = "drain"
    /\ buffer_drained(buffer)
    /\ shutdown_wait(futures)
    /\ pc' = "close"
    /\ UNCHANGED <<cfg, walker, out, first, written, skipped, buffer, futures, cur, nextItem,
                   trace, error, faults>>

\* line 357, exit of `with ThreadPoolExecutor` on an exception:
\* shutdown(wait=True) returns when every submitted job has run, then the
\* exception propagates
Shutdown ==
    /\ pc = "shutdown"
    /\ shutdown_wait(futures)
    /\ pc' = "raised"
    /\ UNCHANGED <<cfg, walker, out, first, written, skipped, buffer, futures, cur, nextItem,
                   trace, error, faults>>

\* lines 388-394: the sequential loop handles one entry
SeqStep ==
    /\ pc = "loop"
    /\ ~multi
    /\ nextItem.k = "entry"
    /\ cur' = nextItem.rel
    /\ nextItem' = NoItem
    /\ \E dfail \in BOOLEAN :
        /\ dfail => (checksum_enabled /\ CanFail)
        /\ \E wf \in (IF dfail THEN {"none"} ELSE WriteFails(first)) :
            /\ (wf # "none") => CanFail
            /\ Fault(dfail \/ wf # "none")
            /\ LET r == seq_item(W, nextItem.rel, ~dfail, checksum_enabled, wf)
               IN /\ SetW(r)
                  /\ error' = r.exc
                  /\ pc' = IF r.exc # NoError THEN "raised" ELSE "loop"
            /\ trace' = Append(trace, [rel |-> nextItem.rel,
                                       dig |-> IF dfail THEN "err"
                                               ELSE IF checksum_enabled THEN "ok"
                                               ELSE "off",
                                       wr |-> wf])
    /\ UNCHANGED <<cfg, walker, buffer, futures>>

\* the entries iterator is exhausted: the for loop ends
EndEntries ==
    /\ pc = "loop"
    /\ nextItem.k = "stop"
    /\ nextItem' = NoItem
    /\ pc' = IF multi THEN "drain" ELSE "close"
    /\ UNCHANGED <<cfg, walker, out, first, written, skipped, buffer, futures, cur, trace,
                   error, faults>>

\* the entries iterator raises (the walker under fail policy): nothing in
\* write_json_array_stream catches it
IterRaised ==
    /\ pc = "loop"
    /\ nextItem.k = "raise"
    /\ nextItem' = NoItem
    /\ error' = Err("walk", nextItem.rel)
    /\ pc' = IF multi THEN "shutdown" ELSE "raised"
    /\ UNCHANGED <<cfg, walker, out, first, written, skipped, buffer, futures, cur, trace, faults>>

\* line 396-398: write "\n]\n", close the file, return (written, skipped)
Close ==
    /\ pc = "close"
    /\ \E fail \in BOOLEAN :
        /\ fail => CanFail
        /\ Fault(fail)
        /\ IF fail
           THEN /\ pc' = "raised"
                /\ error' = Err("write", <<>>)
                /\ UNCHANGED out
           ELSE /\ pc' = "returned"
                /\ out' = Append(out, CloseTok)
                /\ UNCHANGED error
    /\ UNCHANGED <<cfg, walker, first, written, skipped, buffer, futures, cur, nextItem, trace>>

\* A pool thread runs compute_md5 for job k.  The pool starts jobs in
\* submission order on checksum_workers threads, so job k can be the one that
\* finishes next exactly when fewer than checksum_workers earlier jobs are
\* unfinished.
WorkerRun(k) ==
    /\ futures[k].st = "pending"
    /\ Cardinality(Unfinished(k - 1)) < checksum_workers
    /\ \E bad \in BOOLEAN :
        /\ bad => CanFail
        /\ Fault(bad)
        /\ futures' = [futures EXCEPT ![k].st = IF bad THEN "err" ELSE "ok"]
    /\ UNCHANGED <<cfg, walker, pc, out, first, written, skipped, buffer, cur, nextItem, trace,
                   error>>

Worker == \E k \in 1..Len(futures) : WorkerRun(k)

(***************************************************************************)
(* SpecStream: write_json_array_stream fed by an arbitrary iterator.       *)
(***************************************************************************)
StreamEntry(i) ==
    IF i % 3 = 0 THEN << <<"d">>, <<Letters[i]>> >> ELSE << <<Letters[i]>> >>

\* next(entries): the next entry, StopIteration, or (fail policy) an exception
IterNext ==
    /\ pc = "loop"
    /\ nextItem = NoItem
    /\ \/ /\ Len(trace) < MaxEntries
          /\ nextItem' = Item("entry", StreamEntry(Len(trace) + 1))
          /\ UNCHANGED faults
       \/ /\ nextItem' = Item("stop", <<>>)
          /\ UNCHANGED faults
       \/ /\ on_error = "fail"
          /\ CanFail
          /\ nextItem' = Item("raise", <<>>)
          /\ faults' = faults + 1
    /\ UNCHANGED <<cfg, walker, pc, out, first, written, skipped, buffer, futures, cur, trace,
                   error>>

\* no tree is walked: the entries come from IterNext
NoWalker ==
    /\ tree = [files |-> {}, dirs |-> {}, links |-> {}]
    /\ exclude_patterns = <<>>
    /\ recursive = TRUE
    /\ stack = <<>>
    /\ listed = <<>>
    /\ walk_errors = <<>>
    /\ scanned_files = <<>>

InitStream ==
    /\ pc = "start"
    /\ NoOrganizer
    /\ NoHistory
    /\ NoWalker
    /\ follow_symlinks = FALSE
    /\ root_kind = "dir"
    /\ output_dir = TRUE
    /\ checksum_enabled \in BOOLEAN
    /\ checksum_workers \in 1..MaxWorkers
    /\ on_error \in {"fail", "skip"}
    /\ InitWriter

WriterNext ==
    \/ Open
    \/ Submit
    \/ FlushHead
    \/ DrainHead
    \/ ExitPool
    \/ Shutdown
    \/ SeqStep
    \/ EndEntries
    \/ IterRaised
    \/ Close
    \/ Worker

NextStream == WriterNext \/ IterNext

SpecStream == InitStream /\ [][NextStream]_vars

\* the skip-policy runs with a pool of two threads
InitStreamLive ==
    /\ InitStream
    /\ on_error = "skip"
    /\ checksum_enabled
    /\ checksum_workers = 2

\* the steps of the controlling flow in such a run
ControlLive ==
    \/ Open
    \/ Submit
    \/ FlushHead
    \/ DrainHead
    \/ ExitPool
    \/ EndEntries
    \/ Close
    \/ IterNext

NextStreamLive == ControlLive \/ Worker

\* the threads of the process are scheduled: while the controlling flow can
\* take a step or the pool can run a job, one of them does
SpecStreamLive ==
    InitStreamLive /\ [][NextStreamLive]_vars /\ WF_vars(NextStreamLive)

(***************************************************************************)
(* Names: ordering and glob matching.                                      *)
(***************************************************************************)
\* the code point of a character (str comparison is by code point)
Ord(c) ==
    CASE c = "*" -> 42
      [] c = "." -> 46
      [] c = "/" -> 47
      [] c = "?" -> 63
      [] c = "B" -> 66
      [] c = "a" -> 97
      [] c = "b" -> 98
      [] c = "c" -> 99
      [] c = "d" -> 100
      [] c = "g" -> 103

RECURSIVE NameLess(_, _)
\* x < y for two str values
NameLess(x, y) ==
    IF Len(x) = 0 THEN Len(y) > 0
    ELSE IF Len(y) = 0 THEN FALSE
    ELSE IF x[1] = y[1] THEN NameLess(Tail(x), Tail(y))
    ELSE Ord(x[1]) < Ord(y[1])

RECURSIVE Insert(_, _)
Insert(x, s) ==
    IF s = <<>> THEN <<x>>
    ELSE IF NameLess(x, s[1]) THEN <<x>> \o s
    ELSE <<s[1]>> \o Insert(x, Tail(s))

\* no sorting: the items stay in the order they were appended in
SortByName_unsorted(s) == s

RECURSIVE SortByName(_)
\* sorted(items, key=lambda item: item[0]): stable, ascending by name
SortByName(s) ==
    IF s = <<>> THEN <<>>
    ELSE Insert(s[Len(s)], SortByName(SubSeq(s, 1, Len(s) - 1)))

\* the files in the order os.scandir listed them
files_as_listed(files) == files

\* the files of one directory in the order the for loop of line 144 takes them
sorted_files(files) == SortByName(files)

\* the subdirectories in the order os.scandir listed them
directories_as_listed(directories) == directories

\* the subdirectories in the order the for loop of line 154 takes them
sorted_directories(directories) == SortByName(directories)

RECURSIVE fnmatch(_, _)
\* fnmatch.fnmatch(name, pat) for patterns of literals, `*` and `?`
fnmatch(name, pat) ==
    IF pat = <<>> THEN name = <<>>
    ELSE IF pat[1] = "*"
         THEN fnmatch(name, Tail(pat)) \/ (name # <<>> /\ fnmatch(Tail(name), pat))
    ELSE IF name = <<>> THEN FALSE
    ELSE IF pat[1] = "?" THEN fnmatch(Tail(name), Tail(pat))
    ELSE name[1] = pat[1] /\ fnmatch(Tail(name), Tail(pat))

\* an exclusion test that tries the first pattern only
should_exclude_first_pattern(relative_path) ==
    IF exclude_patterns = <<>> THEN FALSE
    ELSE \E part \in 1..Len(relative_path) :
            fnmatch(relative_path[part], exclude_patterns[1])

\* Scanner.should_exclude(relative_path)
should_exclude(relative_path) ==
    IF exclude_patterns = <<>> THEN FALSE
    ELSE \E part \in 1..Len(relative_path) :
            \E pattern \in 1..Len(exclude_patterns) :
                fnmatch(relative_path[part], exclude_patterns[pattern])

(***************************************************************************)
(* The tree and the walker Scanner._walk_directory, a generator: its       *)
(* frames run only while the consumer waits for the next entry.            *)
(***************************************************************************)
\* tree.links holds the symbolic links as pairs <<path, target>>; every target
\* is a directory of the tree
LinkPaths(t) == {l[1] : l \in t.links}

Paths(t) == t.files \cup t.dirs \cup LinkPaths(t)

IsLink(q) == q \in LinkPaths(tree)

Target(q) == (CHOOSE l \in tree.links : l[1] = q)[2]

RECURSIVE Resolve(_)
\* the directory a path names once every link on it is followed
Resolve(p) ==
    IF p = <<>> THEN <<>>
    ELSE LET q == Append(Resolve(Parent(p)), p[Len(p)])
         IN IF IsLink(q) THEN Target(q) ELSE q

\* where the directory entry named by p lies (its own link not followed)
Real(p) == Append(Resolve(Parent(p)), p[Len(p)])

RECURSIVE LinkCount(_)
\* the number of links the operating system follows to resolve p
LinkCount(p) ==
    IF p = <<>> THEN 0
    ELSE LinkCount(Parent(p)) + (IF IsLink(Real(p)) THEN 1 ELSE 0)

\* the names os.scandir(directory) lists
Children(d) ==
    {p[Len(p)] : p \in {q \in Paths(tree) : Len(q) >= 1 /\ Parent(q) = Resolve(d)}}

\* os.scandir(directory) raises OSError whatever else happens: the scan root
\* is missing or is no directory
scandir_raises(d) == d = <<>> /\ root_kind # "dir"

\* entry.is_dir(follow_symlinks=follow_symlinks)
is_dir(p) == Real(p) \in tree.dirs \/ (follow_symlinks /\ IsLink(Real(p)))

\* entry.is_dir raises OSError whatever else happens: following the link
\* exceeds the limit of the operating system (ELOOP)
is_dir_raises(p) == follow_symlinks /\ IsLink(Real(p)) /\ LinkCount(p) > MaxLinkDepth

Perms(S) ==
    {f \in [1..Cardinality(S) -> S] :
        \A i, j \in 1..Cardinality(S) : i # j => f[i] # f[j]}

Frame(d) == [dir |-> d, phase |-> "scan", files |-> <<>>, dirs |-> <<>>]

Top == stack[Len(stack)]

Pop == SubSeq(stack, 1, Len(stack) - 1)

ReplaceTop(f) == Append(Pop, f)

\* the generator runs when the consumer asks for the next entry
WalkerRuns ==
    /\ pc = "loop"
    /\ nextItem = NoItem
    /\ stack # <<>>

\* a generator that is resumed without ever finishing
Return_never ==
    UNCHANGED <<stack, nextItem>>

\* the top generator returns; when it was the outermost, iteration stops
Return ==
    /\ stack' = Pop
    /\ nextItem' = IF Len(stack) = 1 THEN Item("stop", <<>>) ELSE NoItem

\* _handle_error in the walker: under fail the exception leaves every
\* generator frame and reaches the consumer
Raise(path) ==
    /\ stack' = <<>>
    /\ nextItem' = Item("raise", path)

\* a walker that gives up the whole walk at a directory it cannot list
list_failed_stops(d) ==
    IF handle_error(on_error, "list", Abs(d)) # NoError
    THEN Raise(Abs(d))
    ELSE /\ stack' = <<>>
         /\ nextItem' = Item("stop", <<>>)

\* lines 140-142: os.scandir raised; _handle_error, then `return`
list_failed(d) ==
    IF handle_error(on_error, "list", Abs(d)) # NoError
    THEN Raise(Abs(d))
    ELSE Return

\* lines 122-142: list one directory, drop the excluded entries, classify
WalkScan ==
    /\ WalkerRuns
    /\ Top.phase = "scan"
    /\ listed' = Append(listed, Top.dir)
    /\ \E lfail \in BOOLEAN :
        /\ lfail => (CanFail \/ scandir_raises(Top.dir))
        /\ scandir_raises(Top.dir) => lfail
        /\ IF lfail
           THEN /\ Fault(~scandir_raises(Top.dir))
                /\ walk_errors' = Append(walk_errors, Err("list", Abs(Top.dir)))
                /\ list_failed(Top.dir)
           ELSE \E order \in Perms(Children(Top.dir)) :
                  LET kept == SelectSeq(order, LAMBDA n : ~should_exclude(Append(Top.dir, n)))
                      eloop == {n \in Range(kept) : is_dir_raises(Append(Top.dir, n))}
                  IN \E injected \in SUBSET (Range(kept) \ eloop) :
                      LET bad == injected \cup eloop
                          badSeq == SelectSeq(kept, LAMBDA n : n \in bad)
                          access(i) == Err("access", Abs(Append(Top.dir, badSeq[i])))
                      IN
                      /\ Cardinality(injected) <= MaxFaults - faults
                      /\ faults' = faults + Cardinality(injected)
                      /\ IF on_error = "fail" /\ bad # {}
                         THEN /\ walk_errors' = Append(walk_errors, access(1))
                              /\ Raise(Abs(Append(Top.dir, badSeq[1])))
                         ELSE LET good == SelectSeq(kept, LAMBDA n : n \notin bad)
                                  directories == SelectSeq(good,
                                                   LAMBDA n : is_dir(Append(Top.dir, n)))
                                  files == SelectSeq(good,
                                             LAMBDA n : ~is_dir(Append(Top.dir, n)))
                              IN /\ walk_errors' = walk_errors \o
                                        [i \in 1..Len(badSeq) |-> access(i)]
                                 /\ stack' = ReplaceTop([dir |-> Top.dir, phase |-> "walk",
                                                         files |-> sorted_files(files),
                                                         dirs |-> sorted_directories(directories)])
                                 /\ UNCHANGED nextItem
    /\ UNCHANGED <<cfg, pc, out, first, written, skipped, buffer, futures, cur, trace,
                   error, tree, exclude_patterns, recursive, scanned_files>>

\* lines 144-151: stat the next file and yield it
WalkFile ==
    /\ WalkerRuns
    /\ Top.phase = "walk"
    /\ Top.files # <<>>
    /\ LET rel == Append(Top.dir, Top.files[1])
           rest == [Top EXCEPT !.files = Tail(@)]
       IN \E sfail \in BOOLEAN :
            /\ sfail => CanFail
            /\ Fault(sfail)
            /\ IF sfail
               THEN /\ walk_errors' = Append(walk_errors, Err("stat", Abs(rel)))
                    /\ IF handle_error(on_error, "stat", Abs(rel)) # NoError
                       THEN Raise(Abs(rel))
                       ELSE /\ stack' = ReplaceTop(rest)
                            /\ UNCHANGED nextItem
               ELSE /\ stack' = ReplaceTop(rest)
                    /\ nextItem' = Item("entry", rel)
                    /\ UNCHANGED walk_errors
    /\ UNCHANGED <<cfg, pc, out, first, written, skipped, buffer, futures, cur, trace,
                   error, tree, exclude_patterns, recursive, listed, scanned_files>>

\* lines 153-161: recurse into the next subdirectory
WalkDescend ==
    /\ WalkerRuns
    /\ Top.phase = "walk"
    /\ Top.files = <<>>
    /\ recursive
    /\ Top.dirs # <<>>
    /\ stack' = Append(ReplaceTop([Top EXCEPT !.dirs = Tail(@)]),
                       Frame(Append(Top.dir, Top.dirs[1])))
    /\ UNCHANGED <<cfg, pc, out, first, written, skipped, buffer, futures, cur, nextItem,
                   trace, error, faults, tree, exclude_patterns, recursive, listed,
                   walk_errors, scanned_files>>

\* the generator of one directory is exhausted
WalkReturn ==
    /\ WalkerRuns
    /\ Top.phase = "walk"
    /\ Top.files = <<>>
    /\ ~recursive \/ Top.dirs = <<>>
    /\ Return
    /\ UNCHANGED <<cfg, pc, out, first, written, skipped, buffer, futures, cur, trace,
                   error, faults, tree, exclude_patterns, recursive, listed, walk_errors,
                   scanned_files>>

WalkerNext == WalkScan \/ WalkFile \/ WalkDescend \/ WalkReturn

(***************************************************************************)
(* SpecWalk: Scanner.scan_directory, the walker consumed into a list.      *)
(***************************************************************************)
\* lines 238-255: scan_directory checks the directory and starts the walk
ScanDirectory ==
    /\ pc = "call"
    /\ IF root_kind # "dir"
       THEN /\ pc' = "raised"
            /\ error' = Err("config", <<RootName>>)
            /\ UNCHANGED stack
       ELSE /\ pc' = "loop"
            /\ stack' = <<Frame(<<>>)>>
            /\ UNCHANGED error
    /\ UNCHANGED <<cfg, out, first, written, skipped, buffer, futures, cur, nextItem,
                   trace, faults, tree, exclude_patterns, recursive, listed,
                   walk_errors, scanned_files>>

\* lines 200-214 and 256: scan_file on the next entry, append to the list
ScanFile ==
    /\ pc = "loop"
    /\ nextItem.k = "entry"
    /\ nextItem' = NoItem
    /\ cur' = nextItem.rel
    /\ trace' = Append(trace, [rel |-> nextItem.rel, dig |-> "off", wr |-> "none"])
    /\ \E dfail \in BOOLEAN :
        /\ dfail => (checksum_enabled /\ CanFail)
        /\ Fault(dfail)
        /\ IF dfail
           THEN /\ error' = handle_error(on_error, "scan", Abs(nextItem.rel))
                /\ pc' = IF on_error = "fail" THEN "raised" ELSE "loop"
                /\ UNCHANGED scanned_files
           ELSE /\ scanned_files' = Append(scanned_files, Abs(nextItem.rel))
                /\ UNCHANGED <<pc, error>>
    /\ UNCHANGED <<cfg, out, first, written, skipped, buffer, futures, tree,
                   exclude_patterns, recursive, stack, listed, walk_errors>>

\* line 264: the walk is over, return the list
ScanDone ==
    /\ pc = "loop"
    /\ nextItem.k = "stop"
    /\ nextItem' = NoItem
    /\ pc' = "returned"
    /\ UNCHANGED <<cfg, out, first, written, skipped, buffer, futures, cur, trace, error,
                   faults, walker>>

\* lines 259-261: the walker raised; log and re-raise
ScanAbort ==
    /\ pc = "loop"
    /\ nextItem.k = "raise"
    /\ nextItem' = NoItem
    /\ error' = Err("walk", nextItem.rel)
    /\ pc' = "raised"
    /\ UNCHANGED <<cfg, out, first, written, skipped, buffer, futures, cur, trace,
                   faults, walker>>

NameA == <<"a">>
NameB == <<"b">>
NameC == <<"c">>
NameUpperB == <<"B">>
NameDotG == <<".", "g">>
NameDotD == <<".", "d">>

\* the files a tree of SpecWalk may hold
CandFiles ==
    { <<NameB>>, <<NameDotG>>,
      <<NameA, NameUpperB>>, <<NameA, NameB>>, <<NameA, NameA, NameB>>,
      <<NameC, NameB>>, <<NameC, NameDotD, NameB>> }

\* the tree holding the files F: its directories are their ancestors
Ancestors(p) == {SubSeq(p, 1, n) : n \in 1..(Len(p) - 1)}

TreeOf(F) ==
    [files |-> F,
     dirs  |-> UNION {Ancestors(p) : p \in F},
     links |-> {}]

Trees == {TreeOf(F) : F \in SUBSET CandFiles}

\* a/c is a link to its own parent a
LoopTree ==
    [files |-> { <<NameA, NameB>> },
     dirs  |-> { <<NameA>> },
     links |-> { << <<NameA, NameC>>, <<NameA>> >> }]

\* c is a link to the scan root itself
RootLoopTree ==
    [files |-> { <<NameB>> },
     dirs  |-> {},
     links |-> { << <<NameC>>, <<>> >> }]

\* c is a link to the sibling directory a
SideLinkTree ==
    [files |-> { <<NameB>>, <<NameA, NameB>> },
     dirs  |-> { <<NameA>> },
     links |-> { << <<NameC>>, <<NameA>> >> }]

LinkTrees == {LoopTree, RootLoopTree, SideLinkTree}

\* what the scan root may be: only a directory holds a tree
RootKinds(t) == IF Paths(t) = {} THEN {"dir", "file", "missing"} ELSE {"dir"}

\* follow_symlinks changes nothing in a tree without links
FollowFlags(t) == IF t.links = {} THEN {FALSE} ELSE BOOLEAN

PatternLists ==
    { <<>>,
      << <<".", "*">> >>,
      << <<"a">>, <<"?", "g">> >> }

InitWalk ==
    /\ NoOrganizer
    /\ NoHistory
    /\ tree \in Trees \cup LinkTrees
    /\ root_kind \in RootKinds(tree)
    /\ follow_symlinks \in FollowFlags(tree)
    /\ output_dir = FALSE
    /\ exclude_patterns \in PatternLists
    /\ recursive \in BOOLEAN
    /\ on_error \in {"fail", "skip"}
    /\ checksum_enabled \in BOOLEAN
    /\ checksum_workers = 1
    /\ pc = "call"
    /\ InitWriter
    /\ stack = <<>>
    /\ listed = <<>>
    /\ walk_errors = <<>>
    /\ scanned_files = <<>>

NextWalk == ScanDirectory \/ WalkerNext \/ ScanFile \/ ScanDone \/ ScanAbort

SpecWalk == InitWalk /\ [][NextWalk]_vars

\* the walks without digests: nothing but the walker can fail
InitWalkLive == InitWalk /\ ~checksum_enabled

\* scan_directory runs in one thread that is never suspended for good: a
\* step that can be taken is taken
SpecWalkLive == InitWalkLive /\ [][NextWalk]_vars /\ WF_vars(NextWalk)

(***************************************************************************)
(* SpecFiles: files2json, the walker feeding write_json_array_stream.      *)
(***************************************************************************)
NameD == <<"d">>

\* nine files on three levels; eight of them survive the pattern `.*`
BigTree ==
    TreeOf({ <<NameB>>, <<NameD>>, <<NameDotG>>,
             <<NameA, NameUpperB>>, <<NameA, NameB>>, <<NameA, NameD>>,
             <<NameA, NameA, NameB>>,
             <<NameC, NameB>>, <<NameC, NameD>> })

FilesTrees ==
    { BigTree,
      TreeOf({}),
      TreeOf({ <<NameB>>, <<NameDotG>>, <<NameA, NameB>>, <<NameC, NameDotD, NameB>> }) }

InitFiles ==
    /\ NoOrganizer
    /\ NoHistory
    /\ tree \in FilesTrees
    /\ root_kind \in RootKinds(tree)
    /\ follow_symlinks = FALSE
    /\ output_dir = FALSE
    /\ exclude_patterns \in PatternLists
    /\ recursive \in BOOLEAN
    /\ on_error \in {"fail", "skip", "ignore"}
    /\ checksum_enabled \in BOOLEAN
    /\ checksum_workers \in 0..MaxWorkers
    /\ pc \in {"main", "call"}
    \* argparse admits only the two policies (choices, line 484)
    /\ pc = "main" => on_error \in {"fail", "skip"}
    /\ InitWriter
    /\ stack = <<>>
    /\ listed = <<>>
    /\ walk_errors = <<>>
    /\ scanned_files = <<>>

\* lines 520-537: main checks the input directory, then calls files2json
Main ==
    /\ pc = "main"
    /\ IF root_kind # "dir"
       THEN /\ pc' = "raised"
            /\ error' = Err("config", <<RootName>>)
       ELSE /\ pc' = "call"
            /\ UNCHANGED error
    /\ UNCHANGED <<cfg, walker, out, first, written, skipped, buffer, futures, cur,
                   nextItem, trace, faults>>

\* argument checks that leave the worker count alone
config_error_policy_only(policy, workers) ==
    IF policy \notin {"fail", "skip"} THEN Err("config", <<"on_error">>)
    ELSE NoError

\* lines 418-422: the ValueError the argument checks raise, NoError when none
config_error(policy, workers) ==
    IF policy \notin {"fail", "skip"} THEN Err("config", <<"on_error">>)
    ELSE IF workers < 1 THEN Err("config", <<"checksum_workers">>)
    ELSE NoError

\* lines 418-442: check the arguments, make the output directory, create the
\* (lazy) entries generator and call write_json_array_stream with one worker
\* unless checksum is enabled
Files2Json ==
    /\ pc = "call"
    /\ IF config_error(on_error, checksum_workers) # NoError
       THEN /\ pc' = "raised"
            /\ error' = config_error(on_error, checksum_workers)
            /\ UNCHANGED <<output_dir, stack, checksum_workers, faults>>
       ELSE \E mkfail \in BOOLEAN :
              /\ mkfail => CanFail
              /\ Fault(mkfail)
              /\ IF mkfail
                 THEN /\ pc' = "raised"
                      /\ error' = Err("mkdir", <<>>)
                      /\ UNCHANGED <<output_dir, stack, checksum_workers>>
                 ELSE /\ pc' = "start"
                      /\ output_dir' = TRUE
                      /\ stack' = <<Frame(<<>>)>>
                      /\ checksum_workers' = IF checksum_enabled THEN checksum_workers ELSE 1
                      /\ UNCHANGED error
    /\ UNCHANGED <<checksum_enabled, on_error, follow_symlinks, root_kind, out, first,
                   written, skipped, buffer, futures, cur, nextItem, trace, tree,
                   exclude_patterns, recursive, listed, walk_errors, scanned_files,
                   organizer, history>>

NextFiles == Main \/ Files2Json \/ WriterNext \/ WalkerNext

SpecFiles == InitFiles /\ [][NextFiles]_vars

(***************************************************************************)
(* Reading the output and the history.                                     *)
(***************************************************************************)
IsRec(tok) == tok.t = "rec"

Recs(o) == SelectSeq(o, IsRec)

\* the positions in the entry sequence whose relative path a record carries
EntriesOf(rec) == {i \in 1..Len(trace) : Join(trace[i].rel) = rec.r.complete_path}

EntryOf(rec) == CHOOSE i \in EntriesOf(rec) : TRUE

\* the sequential loop (lines 388-394) run over the recorded entries with the
\* recorded digest and write outcomes, checksum enabled
RECURSIVE SeqRun(_, _)
SeqRun(w, i) ==
    IF i > Len(trace) THEN w
    ELSE SeqRun(seq_item(w, trace[i].rel, trace[i].dig = "ok", TRUE, trace[i].wr), i + 1)

SeqResult ==
    LET w == SeqRun([out |-> <<OpenTok>>, first |-> TRUE, written |-> 0, skipped |-> 0,
                     exc |-> NoError], 1)
    IN [out |-> Append(w.out, CloseTok), written |-> w.written, skipped |-> w.skipped]

\* `[`, records separated by `,`, `]`: a JSON array of n records
ValidJsonArray(o, n) ==
    /\ Len(o) = IF n = 0 THEN 2 ELSE 2 * n + 1
    /\ o[1] = OpenTok
    /\ o[Len(o)] = CloseTok
    /\ \A j \in 2..(Len(o) - 1) :
        IF j % 2 = 0 THEN o[j].t = "rec" ELSE o[j] = SepTok

Failed(i) == trace[i].dig \in {"err", "nosched"} \/ trace[i].wr # "none"

(***************************************************************************)
(* Claims on write_json_array_stream.                                      *)
(***************************************************************************)
\* C1: with checksum enabled and more than one worker, whatever order the
\* digest jobs finish in, the records written are records of pulled entries
\* and appear in the order the entries were pulled.
C1_EmissionOrder ==
    multi =>
        LET recs == Recs(out)
        IN /\ \A a \in 1..Len(recs) : EntriesOf(recs[a]) # {}
           /\ \A a, b \in 1..Len(recs) :
                a < b => EntryOf(recs[a]) < EntryOf(recs[b])

\* two records are out while the head of the buffer is still being hashed and a
\* later buffered digest has already finished
C1_Witness ==
    /\ multi
    /\ Len(Recs(out)) >= 2
    /\ Len(buffer) >= 2
    /\ ~Done(futures[buffer[1].fut])
    /\ \E j \in 2..Len(buffer) : Done(futures[buffer[j].fut])

\* C2: under skip policy a multi-worker run that scheduled every entry returns
\* the output and the (written, skipped) pair the sequential loop produces on
\* the same entries with the same per-file outcomes.
C2_SameAsSequential ==
    (/\ pc = "returned"
     /\ multi
     /\ on_error = "skip"
     /\ \A i \in 1..Len(trace) : trace[i].dig # "nosched")
    => /\ out = SeqResult.out
       /\ written = SeqResult.written
       /\ skipped = SeqResult.skipped

\* a returned skip-policy multi-worker run that flushed during the traversal,
\* skipped a failed digest and wrote records after it
C2_Witness ==
    /\ pc = "returned"
    /\ multi
    /\ on_error = "skip"
    /\ Len(trace) > pipeline_depth
    /\ \E i \in 1..Len(trace) : trace[i].dig = "err" /\ i < Len(trace)
    /\ written >= 2
    /\ \A i \in 1..Len(trace) : trace[i].dig # "nosched"

\* C3: every record written carries the digest of its own file when checksum
\* is enabled, and the empty string when it is disabled, in which case no
\* digest job was ever submitted.
C3_OwnDigest ==
    /\ \A tok \in Range(out) :
        IsRec(tok) =>
            \E i \in 1..Len(trace) :
                tok.r = make_record(trace[i].rel,
                                    IF checksum_enabled
                                    THEN compute_md5(Abs(trace[i].rel))
                                    ELSE <<>>)
    /\ ~checksum_enabled => futures = <<>>

\* records were written from the full buffer while later digests were finished
C3_Witness ==
    /\ multi
    /\ pc = "flush"
    /\ written >= 1
    /\ \E j \in 2..Len(buffer) : Done(futures[buffer[j].fut])

\* C8: whenever the call returns, the file is `[`, exactly `written` records
\* with a separator before each but the first, `]`.
C8_ValidJsonOnReturn ==
    pc = "returned" => ValidJsonArray(out, written)

\* C9: under fail policy, once an error has been raised the run only shuts the
\* pool down and propagates: nothing more is written; a run in which anything
\* failed never returns and never writes the closing bracket, and no record of
\* an entry at or after a failed entry is written.
C9_FailAborts ==
    /\ [](on_error = "fail" =>
            /\ error # NoError => pc \in {"shutdown", "raised"}
            /\ faults > 0 => (pc # "returned" /\ CloseTok \notin Range(out))
            /\ \A tok \in Range(out) :
                IsRec(tok) =>
                    \A i \in 1..Len(trace) :
                        Failed(i) => \A e \in EntriesOf(tok) : e < i)
    /\ [][(on_error = "fail" /\ error # NoError) =>
            (out' = out /\ pc' \in {"shutdown", "raised"})]_vars

\* a fail-policy multi-worker run raised after records had been written
C9_Witness ==
    /\ on_error = "fail"
    /\ multi
    /\ pc = "raised"
    /\ error.kind = "hash"
    /\ written >= 1

\* the step consumes the failed digest of entry i
DigestFailureHandled(i) ==
    /\ i \in 1..Len(trace')
    /\ trace'[i].dig = "err"
    /\ (i \in 1..Len(trace) => trace[i].dig # "err")

\* C10: under skip policy, handling a failed digest adds exactly 1 to skipped,
\* writes nothing and lets the run go on; a returned run holds no record of a
\* file whose digest failed and a record of every entry that did not fail.
C10_SkipDigestFailure ==
    /\ [][(on_error = "skip" /\ \E i \in 1..MaxEntries : DigestFailureHandled(i)) =>
            /\ skipped' = skipped + 1
            /\ out' = out
            /\ written' = written
            /\ pc' \in {"loop", "flush", "drain"}]_vars
    /\ []((on_error = "skip" /\ pc = "returned") =>
            \A i \in 1..Len(trace) :
                /\ trace[i].dig = "err" =>
                      \A tok \in Range(out) : IsRec(tok) => i \notin EntriesOf(tok)
                /\ ~Failed(i) =>
                      \E tok \in Range(out) : IsRec(tok) /\ i \in EntriesOf(tok))

\* a returned skip-policy multi-worker run with a failed digest followed by a
\* written record
C10_Witness ==
    /\ on_error = "skip"
    /\ multi
    /\ pc = "returned"
    /\ skipped = 1
    /\ \E i, j \in 1..Len(trace) :
        /\ i < j
        /\ trace[i].dig = "err"
        /\ ~Failed(j)

(***************************************************************************)
(* Claims on the walker.                                                   *)
(***************************************************************************)
\* the relative paths the walker has yielded so far, in order
Yielded ==
    [i \in 1..Len(trace) |-> trace[i].rel]
        \o (IF nextItem.k = "entry" THEN <<nextItem.rel>> ELSE <<>>)

IsPrefix(d, p) == Len(d) <= Len(p) /\ SubSeq(p, 1, Len(d)) = d

\* no segment of p matches an exclusion pattern
NotExcluded(p) ==
    \A part \in 1..Len(p) :
        \A pattern \in 1..Len(exclude_patterns) :
            ~fnmatch(p[part], exclude_patterns[pattern])

\* C4: the files of one directory are yielded in ascending name order, and
\* before every entry of its subdirectories: when an entry below a
\* subdirectory of d is yielded, no file of d comes after it and, in a walk
\* without errors, every non-excluded file of d has been yielded before it.
C4_FilesSortedBeforeSubdirs ==
    LET Y == Yielded
    IN \A i, j \in 1..Len(Y) :
        /\ (i < j /\ Parent(Y[i]) = Parent(Y[j]))
              => NameLess(Y[i][Len(Y[i])], Y[j][Len(Y[j])])
        /\ (Len(Parent(Y[i])) > Len(Parent(Y[j])) /\ IsPrefix(Parent(Y[j]), Parent(Y[i])))
              => j < i
        /\ faults = 0 =>
              \A f \in tree.files :
                  (/\ NotExcluded(f)
                   /\ Len(Parent(Y[i])) > Len(Parent(f))
                   /\ IsPrefix(Parent(f), Parent(Y[i])))
                  => \E k \in 1..(i - 1) : Y[k] = f

\* two files of one directory and then an entry of its subdirectory were yielded
C4_Witness ==
    \E i, j, k \in 1..Len(Yielded) :
        /\ i < j
        /\ j < k
        /\ Parent(Yielded[i]) = Parent(Yielded[j])
        /\ Len(Yielded[k]) > Len(Yielded[i])
        /\ IsPrefix(Parent(Yielded[i]), Parent(Yielded[k]))

\* the first position at which two paths differ
Diverge(p, q) ==
    CHOOSE k \in 1..(Len(p) + 1) :
        /\ \A m \in 1..(k - 1) : m <= Len(q) /\ p[m] = q[m]
        /\ k > Len(p) \/ k > Len(q) \/ p[k] # q[k]

\* p and q lie in two different subdirectories of one directory
InSiblingSubdirs(p, q) ==
    LET k == Diverge(p, q) IN k < Len(p) /\ k < Len(q)

\* C5: sibling subdirectories are taken in ascending name order and the whole
\* subtree of one is yielded (and listed) before the first entry of the next.
C5_SubdirsAscendingDepthFirst ==
    /\ \A i, j \in 1..Len(Yielded) :
         (i < j /\ InSiblingSubdirs(Yielded[i], Yielded[j]))
            => NameLess(Yielded[i][Diverge(Yielded[i], Yielded[j])],
                        Yielded[j][Diverge(Yielded[i], Yielded[j])])
    /\ \A i, j \in 1..Len(listed) :
         (i < j /\ Diverge(listed[i], listed[j]) <= Len(listed[i])
                /\ Diverge(listed[i], listed[j]) <= Len(listed[j]))
            => NameLess(listed[i][Diverge(listed[i], listed[j])],
                        listed[j][Diverge(listed[i], listed[j])])

\* an entry two levels below one subdirectory was yielded before an entry of
\* the next sibling subdirectory
C5_Witness ==
    /\ recursive
    /\ \E i, j \in 1..Len(Yielded) :
        /\ i < j
        /\ Len(Yielded[i]) = 3
        /\ Yielded[i][1] # Yielded[j][1]
        /\ Len(Yielded[j]) >= 2

\* C6: no yielded entry has a segment matching an exclusion pattern, and no
\* directory with such a segment is ever listed.
C6_ExcludedNeverVisited ==
    /\ \A i \in 1..Len(Yielded) : NotExcluded(Yielded[i])
    /\ \A i \in 1..Len(listed) : NotExcluded(listed[i])
    /\ \A i \in 1..Len(scanned_files) : NotExcluded(scanned_files[i])

\* a finished recursive scan of a tree that holds a file with a non-matching
\* name inside a matching directory, next to files that were yielded
C6_Witness ==
    /\ pc = "returned"
    /\ recursive
    /\ faults = 0
    /\ scanned_files # <<>>
    /\ \E f \in tree.files :
        /\ Len(f) >= 2
        /\ ~NotExcluded(Parent(f))
        /\ NotExcluded(<<f[Len(f)]>>)

C11_SkipCountsEveryError ==
    (on_error = "skip" /\ pc = "returned") =>
        skipped = Cardinality({i \in 1..Len(trace) : Failed(i)}) + Len(walk_errors)

\* C12: once a write of a record has failed the run is aborting, under either
\* policy; the write error is never passed over.
C12_WriteErrorFatal ==
    (\E i \in 1..Len(trace) : trace[i].wr # "none") =>
        (error # NoError /\ pc \in {"shutdown", "raised"})

\* C13: when the scan root is missing or no directory, no directory is ever
\* listed, the output directory is not made, the output file is not opened
\* and the run does not return.
C13_InvalidRootRejected ==
    root_kind # "dir" =>
        /\ listed = <<>>
        /\ ~output_dir
        /\ out = <<>>
        /\ pc \in {"main", "call", "raised"}

\* C14: with a worker count below 1 or a policy other than fail and skip,
\* files2json only raises: the output directory is not made, the output file
\* is not opened, no directory is listed and no digest job is submitted.
C14_InvalidConfigRaisesFirst ==
    (checksum_workers < 1 \/ on_error \notin {"fail", "skip"}) =>
        /\ ~output_dir
        /\ out = <<>>
        /\ listed = <<>>
        /\ futures = <<>>
        /\ stack = <<>>
        /\ pc \in {"main", "call", "raised"}
        /\ pc = "raised" => error.kind = "config"

\* files2json raised on a worker count of 0 with a valid policy, a valid
\* root and a tree full of files
C14_Witness ==
    /\ pc = "raised"
    /\ error = Err("config", <<"checksum_workers">>)
    /\ checksum_workers = 0
    /\ root_kind = "dir"
    /\ tree = BigTree

\* the entries whose digest job was submitted and is not yet consumed
Unconsumed == {i \in 1..Len(trace) : trace[i].dig = "none"}

\* C15: in multi-worker mode the buffer, which holds exactly the submitted
\* and not yet consumed digest jobs, never holds more than
\* max(4, workers * 4) pairs.
C15_BufferBounded ==
    multi =>
        /\ Len(buffer) <= Max(4, checksum_workers * 4)
        /\ Cardinality(Unconsumed) = Len(buffer)

\* the buffer is full for the second time: a pair was consumed and a new
\* entry took its place
C15_Witness ==
    /\ multi
    /\ pc = "flush"
    /\ Len(buffer) = Max(4, checksum_workers * 4)
    /\ Len(trace) > Len(buffer)

\* C16: when the error has left write_json_array_stream in multi-worker mode,
\* every digest job submitted to the pool has run to its end.
C16_PoolShutDownOnAbort ==
    (multi /\ pc = "raised") => \A k \in 1..Len(futures) : Done(futures[k])

\* a fail-policy run aborted on a failed digest while later jobs were still
\* in the buffer
C16_Witness ==
    /\ multi
    /\ on_error = "fail"
    /\ pc = "raised"
    /\ error.kind = "hash"
    /\ Len(buffer) >= 2

(***************************************************************************)
(* Claims on symbolic links, unreadable directories and determinism.       *)
(***************************************************************************)
\* C17: every entry the walker yields names a file of the tree, never a
\* directory and never a link to a directory.
C17_OnlyFilesYielded ==
    \A i \in 1..Len(Yielded) : Real(Yielded[i]) \in tree.files

\* C18: every walk ends, by returning the list or by raising, also when links
\* are followed and a link points to one of its ancestors.
C18_WalkTerminates ==
    <>(pc \in {"returned", "raised"})

\* a walk that followed the link of a directory to its own parent returned
\* after it had yielded the file of that directory more than once
C18_Witness ==
    /\ pc = "returned"
    /\ follow_symlinks
    /\ recursive
    /\ tree = LoopTree
    /\ Len(scanned_files) >= 2
    /\ \E e \in Range(walk_errors) : e.kind = "access"

\* the directories whose listing failed
FailedDirs == {d \in tree.dirs \cup {<<>>} : Err("list", Abs(d)) \in Range(walk_errors)}

\* p comes before q in the traversal order: the files of a directory by
\* name and before its subdirectories, the subdirectories by name
WalkBefore(p, q) ==
    LET k == Diverge(p, q)
    IN IF k > Len(p) \/ k > Len(q) THEN FALSE
       ELSE IF (k = Len(p)) = (k = Len(q)) THEN NameLess(p[k], q[k])
       ELSE k = Len(p)

\* the sequence of paths is the set S in traversal order
IsWalkOf(seq, S) ==
    /\ Range(seq) = S
    /\ \A i, j \in 1..Len(seq) : i < j => WalkBefore(seq[i], seq[j])

\* C19: under skip policy a walk in which nothing but directory listings
\* failed returns the files of the tree without the subtrees of the failing
\* directories, in traversal order; under fail policy a failed listing ends
\* the walk and the scan never returns.
C19_UnlistableDirectory ==
    /\ (/\ on_error = "skip"
        /\ pc = "returned"
        /\ tree.links = {}
        /\ Len(walk_errors) = faults
        /\ \A e \in Range(walk_errors) : e.kind = "list")
       => IsWalkOf([i \in 1..Len(scanned_files) |-> Tail(scanned_files[i])],
                   {f \in tree.files :
                       /\ NotExcluded(f)
                       /\ recursive \/ Len(f) = 1
                       /\ \A d \in FailedDirs : ~IsPrefix(d, Parent(f))})
    /\ (on_error = "fail" /\ \E e \in Range(walk_errors) : e.kind = "list")
       => /\ pc \in {"loop", "raised"}
          /\ stack = <<>>
          /\ nextItem.k \in {"raise", "none"}
          /\ pc = "raised" <=> nextItem.k = "none"

\* a skip-policy walk could not list the directory a and went on to yield a
\* file of the next sibling directory c
C19_Witness ==
    /\ on_error = "skip"
    /\ pc = "returned"
    /\ recursive
    /\ walk_errors = <<Err("list", Abs(<<NameA>>))>>
    /\ \E f \in tree.files : f[1] = NameA /\ NotExcluded(f)
    /\ Abs(<<NameB>>) \in Range(scanned_files)
    /\ Abs(<<NameC, NameB>>) \in Range(scanned_files)

\* the file a record was made of
FileOf(rec) ==
    CHOOSE f \in tree.files :
        rec = make_record(f, IF checksum_enabled THEN compute_md5(Abs(f)) ELSE <<>>)

\* C20: the records a files2json run without errors writes are fixed by the
\* tree and the configuration alone: the records of the non-excluded files in
\* traversal order, whatever order the directories were listed in and the
\* digest jobs finished in.
C20_Deterministic ==
    (pc = "returned" /\ faults = 0 /\ root_kind = "dir") =>
        LET recs == Recs(out)
        IN /\ \A i \in 1..Len(recs) :
                \E f \in tree.files :
                    recs[i].r = make_record(f, IF checksum_enabled
                                               THEN compute_md5(Abs(f)) ELSE <<>>)
           /\ IsWalkOf([i \in 1..Len(recs) |-> FileOf(recs[i].r)],
                       {f \in tree.files :
                           NotExcluded(f) /\ (recursive \/ Len(f) = 1)})
           /\ ValidJsonArray(out, Len(recs))

\* a multi-worker run over the whole big tree, nothing excluded, returned
\* with a record of each of its nine files
C20_Witness ==
    /\ pc = "returned"
    /\ faults = 0
    /\ multi
    /\ recursive
    /\ tree = BigTree
    /\ exclude_patterns = <<>>
    /\ written = Cardinality(BigTree.files)

(***************************************************************************)
(* Claims on the drain, the waits and the accounting of the writer.        *)
(***************************************************************************)
\* C26: a skip-policy multi-worker run whose digest jobs all resolve
\* eventually returns, unless the bracket cannot be written to the output
\* file; at return the buffer is empty, every submitted job was consumed and
\* the closing bracket is the last thing written; after the traversal the
\* buffer only shrinks, from its head.
C26_DrainsAndReturns ==
    /\ <>(pc = "returned" \/ error = Err("write", <<>>))
    /\ [](pc = "returned" =>
            /\ buffer = <<>>
            /\ Unconsumed = {}
            /\ out[Len(out)] = CloseTok
            /\ \A j \in 1..(Len(out) - 1) : out[j] # CloseTok)
    /\ [][pc = "drain" =>
            /\ Len(trace') = Len(trace)
            /\ buffer' # buffer => (buffer # <<>> /\ buffer' = Tail(buffer))]_vars

\* a run that had to flush during the traversal returned after it had
\* drained the rest, one failed digest among it
C26_Witness ==
    /\ pc = "returned"
    /\ on_error = "skip"
    /\ multi
    /\ Len(trace) > pipeline_depth
    /\ trace[Len(trace)].dig = "err"
    /\ buffer = <<>>

\* the steps of the controlling flow
ControlFlow ==
    \/ Open
    \/ Submit
    \/ FlushHead
    \/ DrainHead
    \/ ExitPool
    \/ Shutdown
    \/ SeqStep
    \/ EndEntries
    \/ IterRaised
    \/ Close
    \/ IterNext

\* the controlling flow is suspended: the call is not over and it can take
\* no step
Suspended == pc \notin {"returned", "raised"} /\ ~ENABLED ControlFlow

\* the controlling flow waits for the digest at the head of the buffer
WaitsForHead ==
    /\ pc \in {"flush", "drain"}
    /\ buffer # <<>>
    /\ ~Done(futures[buffer[1].fut])

\* C27 as stated: in multi-worker mode the controlling flow is suspended
\* only while it waits for the digest at the head of the buffer.
C27_OnlyHeadWait ==
    (multi /\ Suspended) => WaitsForHead

\* C27 as amended: in multi-worker mode the controlling flow is suspended
\* only while it waits for the digest at the head of the buffer or, once the
\* run aborts, while the shutdown of the pool waits for the outstanding jobs.
C27_HeadWaitOrShutdown ==
    (multi /\ Suspended) =>
        \/ WaitsForHead
        \/ /\ pc = "shutdown"
           /\ error # NoError
           /\ \E k \in 1..Len(futures) : ~Done(futures[k])

\* the controlling flow is suspended at the full buffer: the head is still
\* being hashed while the job submitted last has finished
C27_Witness ==
    /\ multi
    /\ Suspended
    /\ pc = "flush"
    /\ Done(futures[buffer[Len(buffer)].fut])

\* C28: whenever write_json_array_stream returns, written + skipped is the
\* number of entries pulled from the iterator.
C28_EveryEntryAccounted ==
    pc = "returned" => written + skipped = Len(trace)

\* a skip-policy multi-worker run returned after a job could not be
\* submitted and a full buffer was flushed
C28_Witness ==
    /\ pc = "returned"
    /\ multi
    /\ on_error = "skip"
    /\ \E i \in 1..Len(trace) : trace[i].dig = "nosched"
    /\ written >= pipeline_depth
    /\ skipped = 1

\* C30: under fail policy in multi-worker mode, the error that propagates
\* after a digest failed names the file whose digest failed.
C30_ErrorNamesFailedFile ==
    (/\ on_error = "fail"
     /\ multi
     /\ error # NoError
     /\ \E i \in 1..Len(trace) : trace[i].dig = "err")
    => \E i \in 1..Len(trace) : trace[i].dig = "err" /\ error.path = Abs(trace[i].rel)

(***************************************************************************)
(* The filesystem of the organizer.  A path is a sequence of names, the    *)
(* empty path the working directory; fs maps every existing path to its    *)
(* node: DirNode for a directory, the content for a regular file.          *)
(***************************************************************************)
DirNode == "dir"

\* Path.exists
exists(f, p) == p = <<>> \/ p \in DOMAIN f

\* os.path.isdir
isdir(f, p) == p = <<>> \/ (p \in DOMAIN f /\ f[p] = DirNode)

\* Path.mkdir(parents=True, exist_ok=True) raises when the path or one of its
\* ancestors is a regular file (FileExistsError, NotADirectoryError)
mkdir_raises(f, p) ==
    \E q \in (Ancestors(p) \cup {p}) \ {<<>>} : q \in DOMAIN f /\ f[q] # DirNode

\* Path.mkdir(parents=True, exist_ok=True): the missing directories are made
mkdir(f, p) ==
    [q \in DOMAIN f \cup ((Ancestors(p) \cup {p}) \ {<<>>}) |->
        IF q \in DOMAIN f THEN f[q] ELSE DirNode]

\* os.path.basename
basename(p) == p[Len(p)]

\* where shutil.move and shutil.copy2 put a file: into dst when dst is a
\* directory, at dst otherwise
real_dst(f, src, dst) == IF isdir(f, dst) THEN Append(dst, basename(src)) ELSE dst

\* shutil.move raises Error when dst is a directory that has an entry of the
\* source's name
move_raises(f, src, dst) == isdir(f, dst) /\ exists(f, real_dst(f, src, dst))

\* shutil.move of a regular file: os.rename to real_dst, which replaces a
\* regular file there; renaming a file to itself does nothing
move(f, src, dst) ==
    LET to == real_dst(f, src, dst) IN
    IF to = src THEN f
    ELSE [q \in (DOMAIN f \cup {to}) \ {src} |-> IF q = to THEN f[src] ELSE f[q]]

\* shutil.copy2 raises SameFileError when source and destination are one file
copy2_raises(f, src, dst) == real_dst(f, src, dst) = src

\* shutil.copy2 of a regular file: real_dst gets the content, replacing a
\* regular file there
copy2(f, src, dst) ==
    LET to == real_dst(f, src, dst) IN
    [q \in DOMAIN f \cup {to} |-> IF q = to THEN f[src] ELSE f[q]]

(***************************************************************************)
(* Executor (src/semantic_organizer/executor.py).  One action per call of  *)
(* execute_operation; the operating system may refuse a step of a real     *)
(* operation.                                                              *)
(***************************************************************************)
\* what the operating system may do to a real operation: nothing, refuse to
\* make the target directory, refuse the move or copy, or refuse to unlink
\* the source after a move across devices copied it
OsFaults == {"none", "mkdir", "transfer", "unlink"}

Outcome(ok, f) == [ok |-> ok, fs |-> f]

\* the simulation never returns early
simulated_never(dry) == FALSE

\* lines 55-57: a dry run returns before anything is touched
simulated(dry) == dry

\* no operation is taken to be in place
in_place_never(op) == FALSE

\* lines 51-53: the file is already in the target location
in_place(op) == op.source_path = op.target_path

\* lines 59-80: the real operation, every exception caught and turned into
\* False
perform(f, op, fault) ==
    LET dir == Parent(op.target_path) IN
    IF mkdir_raises(f, dir) \/ (fault = "mkdir" /\ ~exists(f, dir))
    THEN Outcome(FALSE, f)
    ELSE LET g == mkdir(f, dir) IN
         IF op.operation = "move"
         THEN IF move_raises(g, op.source_path, op.target_path) \/ fault = "transfer"
              THEN Outcome(FALSE, g)
              ELSE IF fault = "unlink" /\ ~copy2_raises(g, op.source_path, op.target_path)
              THEN Outcome(FALSE, copy2(g, op.source_path, op.target_path))
              ELSE Outcome(TRUE, move(g, op.source_path, op.target_path))
         ELSE IF op.operation = "copy"
         THEN IF copy2_raises(g, op.source_path, op.target_path) \/ fault = "transfer"
              THEN Outcome(FALSE, g)
              ELSE Outcome(TRUE, copy2(g, op.source_path, op.target_path))
         ELSE Outcome(FALSE, g)

\* lines 28-80: Executor.execute_operation
execute_operation(f, dry, op, fault) ==
    IF op.operation = "skip" THEN Outcome(TRUE, f)
    ELSE IF ~exists(f, op.source_path) THEN Outcome(FALSE, f)
    ELSE IF in_place(op) THEN Outcome(TRUE, f)
    ELSE IF simulated(dry) THEN Outcome(TRUE, f)
    ELSE perform(f, op, fault)

\* the operation the loop of execute_operations is at
Current == operations[Len(results) + 1]

\* lines 98-101: one turn of the loop of execute_operations
ExecuteOperation ==
    /\ job = "execute"
    /\ Len(results) < Len(operations)
    /\ \E fault \in OsFaults :
         LET r == execute_operation(fs, dry_run, Current, fault) IN
         /\ fs' = r.fs
         /\ results' = Append(results, r.ok)
    /\ UNCHANGED <<dry_run, annotations, operations, job, target_path, base, ext,
                   counter, wvars, walker, history>>

\* lines 103-110: execute_operations returns the number of successes
ExecuteDone ==
    /\ job = "execute"
    /\ Len(results) = Len(operations)
    /\ job' = "done"
    /\ UNCHANGED <<fs, dry_run, annotations, operations, target_path, base, ext,
                   counter, results, wvars, walker, history>>

(***************************************************************************)
(* Planner (src/semantic_organizer/planner.py).  An annotation is          *)
(* [file_path, category, subcategory, suggested_name], <<>> standing for   *)
(* an empty subcategory or suggested name; an operation is                 *)
(* [source_path, target_path, operation].                                  *)
(***************************************************************************)
\* Planner.output_directory
output_directory == << <<"o">> >>

\* rules.category_paths: the categories that have a directory
category_paths == [docs |-> <<"d">>]

\* rules.allow_rename
allow_rename == TRUE

\* str.rfind('.') + 1: the position of the last dot, 0 when there is none
rfind(name) ==
    LET dots == {i \in 1..Len(name) : name[i] = "."} IN
    IF dots = {} THEN 0 ELSE CHOOSE i \in dots : \A j \in dots : j <= i

\* PurePath.suffix: from the last dot on, unless that dot is the first or the
\* last character of the name
suffix(name) ==
    LET i == rfind(name) IN
    IF 1 < i /\ i < Len(name) THEN SubSeq(name, i, Len(name)) ELSE <<>>

\* PurePath.stem: the name without its suffix
stem(name) ==
    LET i == rfind(name) IN
    IF 1 < i /\ i < Len(name) THEN SubSeq(name, 1, i - 1) ELSE name

Digits == <<"0", "1", "2", "3", "4", "5", "6", "7", "8", "9">>

RECURSIVE str(_)
\* str(counter): the decimal digits of a natural number
str(n) == IF n < 10 THEN <<Digits[n + 1]>> ELSE str(n \div 10) \o <<Digits[(n % 10) + 1]>>

\* line 72: f"{base}_{counter}{ext}"
suffixed(b, c, e) == b \o <<"_">> \o str(c) \o e

\* lines 46-50: the directory of the category, with the subcategory if any
target_dir(a) ==
    LET dir == Append(output_directory, category_paths[a.category]) IN
    IF a.subcategory # <<>> THEN Append(dir, a.subcategory) ELSE dir

\* lines 52-61: the suggested name, with the extension of the source when it
\* has none of its own, or the name of the source
filename(a) ==
    LET source_name == basename(a.file_path) IN
    IF allow_rename /\ a.suggested_name # <<>>
    THEN IF suffix(a.suggested_name) = <<>> /\ suffix(source_name) # <<>>
         THEN stem(a.suggested_name) \o suffix(source_name)
         ELSE a.suggested_name
    ELSE source_name

\* lines 91-107: plan_operation, given what compute_target_path returned
plan_operation(a, target) ==
    [source_path |-> a.file_path,
     target_path |-> target,
     operation |-> IF a.file_path = target THEN "skip" ELSE "move"]

\* lines 128-134: the operation for a file that could not be planned
unplanned(a) ==
    [source_path |-> a.file_path, target_path |-> a.file_path, operation |-> "skip"]

\* the annotation the loop of plan_operations is at
Annotation == annotations[Len(operations) + 1]

\* the counter of the suffix search stays what it is
next_counter_same(c) == c

\* line 74: counter += 1
next_counter(c) == c + 1

\* line 67: the name is taken by another file
collides(f, target, source) == exists(f, target) /\ target # source

\* lines 121-134 with lines 39-70: one turn of the loop of plan_operations, up
\* to the return of compute_target_path or to the start of its suffix search
PlanOperation ==
    /\ job = "plan"
    /\ Len(operations) < Len(annotations)
    /\ LET a == Annotation IN
       IF a.category \notin DOMAIN category_paths
       THEN /\ operations' = Append(operations, unplanned(a))
            /\ UNCHANGED <<job, target_path, base, ext, counter>>
       ELSE LET target == Append(target_dir(a), filename(a)) IN
            IF collides(fs, target, a.file_path)
            THEN /\ job' = "suffix"
                 /\ target_path' = target
                 /\ base' = stem(filename(a))
                 /\ ext' = suffix(filename(a))
                 /\ counter' = 1
                 /\ UNCHANGED operations
            ELSE /\ operations' = Append(operations, plan_operation(a, target))
                 /\ UNCHANGED <<job, target_path, base, ext, counter>>
    /\ UNCHANGED <<fs, dry_run, annotations, results, wvars, walker, history>>

\* lines 71-74: one turn of the suffix search
SuffixStep ==
    /\ job = "suffix"
    /\ exists(fs, target_path)
    /\ target_path' = Append(target_dir(Annotation), suffixed(base, counter, ext))
    /\ counter' = next_counter(counter)
    /\ UNCHANGED <<fs, dry_run, annotations, operations, job, base, ext, results,
                   wvars, walker, history>>

\* lines 71 and 76, then lines 91-107 and 124: the suffix search found a free
\* name, compute_target_path returns it and the operation is planned
SuffixFound ==
    /\ job = "suffix"
    /\ ~exists(fs, target_path)
    /\ operations' = Append(operations, plan_operation(Annotation, target_path))
    /\ job' = "plan"
    /\ UNCHANGED <<fs, dry_run, annotations, target_path, base, ext, counter, results,
                   wvars, walker, history>>

\* planner.py lines 136-143 and pipeline.py lines 120-130: plan_operations
\* returns the list and the pipeline hands it to execute_operations
PlanDone ==
    /\ job = "plan"
    /\ Len(operations) = Len(annotations)
    /\ job' = "execute"
    /\ UNCHANGED <<fs, dry_run, annotations, operations, target_path, base, ext,
                   counter, results, wvars, walker, history>>

(***************************************************************************)
(* The runs of the organizer: SpecExec gives one arbitrary operation to    *)
(* execute_operations, SpecOrganize plans a list of annotations and        *)
(* executes the plan, as stages 5 and 6 of the pipeline do.                *)
(***************************************************************************)
NameXT == <<"x", ".", "t">>

\* two files of one name in two input directories
SourceA == << <<"i">>, NameXT >>
SourceB == << <<"j">>, NameXT >>

\* the directory of the category docs and the names the suffix search tries
\* there first
DocsDir == Append(output_directory, category_paths["docs"])
Placed == Append(DocsDir, NameXT)
Placed1 == Append(DocsDir, suffixed(stem(NameXT), 1, suffix(NameXT)))

\* the regular files a filesystem may hold, each with a content of its own
CandContent == (SourceA :> "A") @@ (SourceB :> "B") @@ (Placed :> "C") @@ (Placed1 :> "D")

\* the filesystem made of the files F and the directories D, and of the
\* directories above them
FsOf(F, D) ==
    LET dirs == (D \cup UNION {Ancestors(p) : p \in F \cup D}) \ {<<>>} IN
    [q \in F \cup dirs |-> IF q \in F THEN CandContent[q] ELSE DirNode]

Filesystems == {FsOf(F, D) : F \in SUBSET (DOMAIN CandContent), D \in {{}, {DocsDir}}}

\* sources of an arbitrary operation: regular files or nothing
ExecSources == {SourceA, Placed}

\* targets of an arbitrary operation: a free or taken name, a directory, a
\* path below missing directories, a path below a regular file, the source
ExecTargets ==
    {Placed, Placed1, DocsDir, Append(Append(DocsDir, <<"s">>), NameXT),
     Append(SourceA, NameXT), SourceA}

\* "link" stands for an operation type the executor does not know
OperationTypes == {"move", "copy", "skip", "link"}

\* no scan is part of an organizer run or of a run of the history tool
NoScanner ==
    /\ NoWalker
    /\ InitWriter
    /\ pc = "idle"
    /\ checksum_enabled = FALSE
    /\ checksum_workers = 1
    /\ on_error = "fail"
    /\ follow_symlinks = FALSE
    /\ root_kind = "dir"
    /\ output_dir = FALSE

InitExec ==
    /\ NoScanner
    /\ NoHistory
    /\ fs \in Filesystems
    /\ dry_run \in BOOLEAN
    /\ annotations = <<>>
    /\ \E s \in ExecSources, t \in ExecTargets, o \in OperationTypes :
         operations = <<[source_path |-> s, target_path |-> t, operation |-> o]>>
    /\ job = "execute"
    /\ target_path = <<>>
    /\ base = <<>>
    /\ ext = <<>>
    /\ counter = 0
    /\ results = <<>>

NextExec == ExecuteOperation \/ ExecuteDone

SpecExec == InitExec /\ [][NextExec]_vars

\* the files the annotations are about: two files of one name that wait to be
\* organized and one that is in the directory of its category already
Sources == {SourceA, SourceB, Placed}

\* category, subcategory and suggested name of an annotation: a category with
\* a directory or without, with a subcategory, with a name without extension
Shapes ==
    { <<"docs", <<>>, <<>>>>, <<"misc", <<>>, <<>>>>,
      <<"docs", <<"s">>, <<>>>>, <<"docs", <<>>, <<"y">>>> }

Annotations ==
    { [file_path |-> p, category |-> sh[1], subcategory |-> sh[2], suggested_name |-> sh[3]] :
        p \in Sources, sh \in Shapes }

\* the lists of annotations with pairwise distinct files
AnnotationLists ==
    { l \in UNION {[1..n -> Annotations] : n \in 1..MaxOps} :
        \A i, j \in 1..Len(l) : i # j => l[i].file_path # l[j].file_path }

InitOrganize ==
    /\ NoScanner
    /\ NoHistory
    /\ annotations \in AnnotationLists
    /\ fs \in {f \in Filesystems :
                 \A i \in 1..Len(annotations) :
                    exists(f, annotations[i].file_path)}
    /\ dry_run \in BOOLEAN
    /\ operations = <<>>
    /\ job = "plan"
    /\ target_path = <<>>
    /\ base = <<>>
    /\ ext = <<>>
    /\ counter = 0
    /\ results = <<>>

NextOrganize ==
    \/ PlanOperation
    \/ SuffixStep
    \/ SuffixFound
    \/ PlanDone
    \/ ExecuteOperation
    \/ ExecuteDone

SpecOrganize == InitOrganize /\ [][NextOrganize]_vars

\* the planner is a sequential program that runs while it can take a step
SpecOrganizeLive == InitOrganize /\ [][NextOrganize]_vars /\ WF_vars(NextOrganize)

(***************************************************************************)
(* The history tool (src/tools/update_history.py).  Text is a sequence of  *)
(* one-character strings; "d" stands for a date YYYY-MM-DD and "t" for a   *)
(* time of day HH:MM:SS.                                                   *)
(***************************************************************************)
Newline == "\n"

Space == " "

RECURSIVE lstrip(_)
\* str.lstrip
lstrip(t) == IF t # <<>> /\ t[1] \in {Space, Newline} THEN lstrip(Tail(t)) ELSE t

RECURSIVE rstrip(_)
\* str.rstrip
rstrip(t) ==
    IF t # <<>> /\ t[Len(t)] \in {Space, Newline}
    THEN rstrip(SubSeq(t, 1, Len(t) - 1))
    ELSE t

\* str.strip
strip(t) == lstrip(rstrip(t))

RECURSIVE splitlines(_)
\* str.splitlines: the lines without their line ends; a line end at the end
\* of the text starts no further line
splitlines(t) ==
    IF t = <<>> THEN <<>>
    ELSE LET ends == {i \in 1..Len(t) : t[i] = Newline} IN
         IF ends = {} THEN <<t>>
         ELSE LET e == CHOOSE i \in ends : \A j \in ends : i <= j IN
              <<SubSeq(t, 1, e - 1)>> \o splitlines(SubSeq(t, e + 1, Len(t)))

RECURSIVE collapse(_)
\* " ".join(text.split()) on a stripped text: every run of whitespace becomes
\* one space
collapse(t) ==
    IF t = <<>> THEN <<>>
    ELSE IF t[1] \in {Space, Newline}
    THEN <<Space>> \o collapse(lstrip(t))
    ELSE <<t[1]>> \o collapse(Tail(t))

RECURSIVE escape_pipes(_)
\* text.replace("|", "\\|")
escape_pipes(t) ==
    IF t = <<>> THEN <<>>
    ELSE (IF t[1] = "|" THEN <<"\\", "|">> ELSE <<t[1]>>) \o escape_pipes(Tail(t))

\* lines 204-211: escape_markdown_cell
escape_markdown_cell(t) == escape_pipes(collapse(strip(t)))

\* lines 184-201: normalize_date: a date stays, a date with a time of day is
\* cut to the date, anything else stays as it is
normalize_date(t) ==
    LET date_str == strip(t) IN
    IF date_str = <<"d">> THEN date_str
    ELSE IF date_str \in {<<"d", "T", "t">>, <<"d", Space, "t">>} THEN <<"d">>
    ELSE date_str

\* lines 214-226: create_history_table_row
create_history_table_row(m) ==
    LET date == normalize_date(m.date)
        agent == escape_markdown_cell(m.agent)
        desc == escape_markdown_cell(m.short_description)
        short_desc == IF strip(m.task_id) # <<>>
                      THEN <<"[">> \o strip(m.task_id) \o <<"]", Space>> \o desc
                      ELSE desc
    IN <<"|", Space>> \o date \o <<Space, "|", Space>> \o agent
          \o <<Space, "|", Space>> \o short_desc \o <<Space, "|">>

\* lines 232-240: the header a new history file gets, its lines shortened to
\* a title, an empty line, the head of the table and its rule
Header ==
    <<"#", Space, "H", Newline, Newline, "|", Space, "D", Space, "|", Newline,
      "|", "-", "|", Newline>>

\* lines 229-241: ensure_history_file
ensure_history_file(h) == IF h.exists THEN h ELSE [exists |-> TRUE, text |-> Header]

\* no last row, the None of get_last_row
NoRow == <<>>

RECURSIVE last_row_of(_)
\* lines 251-255: the last line that starts with "|" when stripped, stripped
last_row_of(ls) ==
    IF ls = <<>> THEN NoRow
    ELSE IF strip(ls[Len(ls)]) # <<>> /\ strip(ls[Len(ls)])[1] = "|"
    THEN strip(ls[Len(ls)])
    ELSE last_row_of(SubSeq(ls, 1, Len(ls) - 1))

\* lines 244-255: get_last_row
get_last_row(h) == IF ~h.exists THEN NoRow ELSE last_row_of(splitlines(h.text))

\* lines 258-274: append_to_history
append_to_history(h, m) ==
    LET file == ensure_history_file(h)
        new_row == create_history_table_row(m)
    IN IF get_last_row(file) = new_row THEN file
       ELSE [file EXCEPT !.text = @ \o new_row \o <<Newline>>]

\* one call of append_to_history, the second with the metadata of the first
AppendToHistory ==
    /\ job = "history"
    /\ calls < 2
    /\ history_file' = append_to_history(history_file, metadata)
    /\ calls' = calls + 1
    /\ after_one' = IF calls = 0 THEN history_file' ELSE after_one
    /\ UNCHANGED <<metadata, organizer, wvars, walker>>

\* the metadata load_or_create_metadata hands over: a date, a date with
\* spaces around it, a date with a time; an agent name, one with a pipe and a
\* run of spaces; with a task id and without
Metadata ==
    { [date |-> d, agent |-> a, short_description |-> <<"s">>, task_id |-> t] :
        d \in {<<"d">>, <<Space, "d">>, <<"d", "T", "t">>},
        a \in {<<"a">>, <<"a", Space, Space, "|">>},
        t \in {<<>>, <<"7">>} }

\* the lines a history file may hold before the call: the row of the
\* metadata, that row indented, another row, the rule of the table, a line
\* of text, an empty line
HistoryLines(m) ==
    { create_history_table_row(m),
      <<Space>> \o create_history_table_row(m),
      <<"|", Space, "o", Space, "|">>,
      <<"|", "-", "|">>,
      <<"x">>,
      <<>> }

RECURSIVE JoinLines(_)
\* the lines, a line end after each but the last
JoinLines(ls) ==
    IF ls = <<>> THEN <<>>
    ELSE IF Len(ls) = 1 THEN ls[1]
    ELSE ls[1] \o <<Newline>> \o JoinLines(Tail(ls))

\* the history files before the call: none, or up to MaxLines lines, the
\* last of them with or without its line end
HistoryFiles(m) ==
    {[exists |-> FALSE, text |-> <<>>]}
    \cup { [exists |-> TRUE, text |-> JoinLines(ls) \o end] :
             ls \in UNION {[1..n -> HistoryLines(m)] : n \in 0..MaxLines},
             end \in {<<>>, <<Newline>>} }

InitHistory ==
    /\ NoScanner
    /\ fs = <<>>
    /\ dry_run = TRUE
    /\ annotations = <<>>
    /\ operations = <<>>
    /\ job = "history"
    /\ target_path = <<>>
    /\ base = <<>>
    /\ ext = <<>>
    /\ counter = 0
    /\ results = <<>>
    /\ metadata \in Metadata
    /\ history_file \in HistoryFiles(metadata)
    /\ calls = 0
    /\ after_one = history_file

NextHistory == AppendToHistory

SpecHistory == InitHistory /\ [][NextHistory]_vars

(***************************************************************************)
(* Claims on Executor.execute_operation.                                   *)
(***************************************************************************)
\* a call of execute_operation happens in this step
Executes == job = "execute" /\ Len(results') = Len(results) + 1

\* what the call of this step returned
Returned == results'[Len(results')]

\* C21: with dry_run=True a call of execute_operation leaves the filesystem
\* as it is, whatever the operation type, and returns True for a move or a
\* copy whose source exists.
C21_DryRunTouchesNothing ==
    [][(Executes /\ dry_run) =>
          /\ fs' = fs
          /\ (Current.operation \in {"move", "copy"} /\ exists(fs, Current.source_path))
                => Returned = TRUE]_vars

\* a dry run returned True for the move of an existing file to a free name
\* below a directory that does not exist
C21_Witness ==
    /\ dry_run
    /\ results = <<TRUE>>
    /\ operations[1].operation = "move"
    /\ operations[1].source_path # operations[1].target_path
    /\ exists(fs, operations[1].source_path)
    /\ ~exists(fs, operations[1].target_path)
    /\ ~exists(fs, Parent(operations[1].target_path))

\* C22: with dry_run=False a move whose source exists and differs from the
\* target returns True only when afterwards the source path is gone, the
\* target path holds the content the source had and every directory above the
\* target exists.
C22_MoveHappened ==
    [][(/\ Executes
        /\ ~dry_run
        /\ Current.operation = "move"
        /\ exists(fs, Current.source_path)
        /\ Current.source_path # Current.target_path
        /\ Returned = TRUE)
       => /\ ~exists(fs', Current.source_path)
          /\ exists(fs', Current.target_path)
          /\ fs'[Current.target_path] = fs[Current.source_path]
          /\ \A q \in Ancestors(Current.target_path) : isdir(fs', q)]_vars

\* C23 as stated: an operation whose source path equals its target path
\* returns True and leaves the filesystem as it is, in both modes.
C23_SamePathSucceeds ==
    [][(Executes /\ Current.source_path = Current.target_path)
       => (Returned = TRUE /\ fs' = fs)]_vars

\* C23 as amended: an operation whose source path equals its target path and
\* whose source exists, or whose type is skip, returns True and leaves the
\* filesystem as it is, in both modes.
C23_SamePathInPlace ==
    [][(/\ Executes
        /\ Current.source_path = Current.target_path
        /\ (exists(fs, Current.source_path) \/ Current.operation = "skip"))
       => (Returned = TRUE /\ fs' = fs)]_vars

\* a real copy of an existing file onto itself returned True
C23_Witness ==
    /\ ~dry_run
    /\ results = <<TRUE>>
    /\ operations[1].operation = "copy"
    /\ operations[1].source_path = operations[1].target_path
    /\ exists(fs, operations[1].source_path)

(***************************************************************************)
(* Claims on the planner and on a planned batch.                           *)
(***************************************************************************)
\* C24: while plan_operations runs, the target path of every operation
\* planned so far does not exist or is the source's own path, and a suffix
\* search that has begun comes to its end.
C24_FreeNameFound ==
    /\ [](job \in {"plan", "suffix"} =>
            \A i \in 1..Len(operations) :
               \/ ~exists(fs, operations[i].target_path)
               \/ operations[i].target_path = operations[i].source_path)
    /\ (job = "suffix") ~> (job = "plan")

\* the suffix search went past two taken names and its third name was planned
C24_Witness ==
    /\ job = "plan"
    /\ counter = 3
    /\ exists(fs, Placed)
    /\ exists(fs, Placed1)
    /\ \E i \in 1..Len(operations) :
         /\ operations[i].operation = "move"
         /\ operations[i].target_path =
               Append(DocsDir, suffixed(stem(NameXT), 2, suffix(NameXT)))

\* the operation moved its source
Moved(i) == operations[i].operation = "move" /\ results[i]

\* C29: after plan_operations and execute_operations with dry_run=False, no
\* two moved sources share a target path and the content of every moved
\* source is under its target path.
C29_NoOverwriteInBatch ==
    (job = "done" /\ ~dry_run) =>
        /\ \A i, j \in 1..Len(operations) :
              (i # j /\ Moved(i) /\ Moved(j))
                 => operations[i].target_path # operations[j].target_path
        /\ \A i \in 1..Len(operations) :
              Moved(i) =>
                 /\ exists(fs, operations[i].target_path)
                 /\ fs[operations[i].target_path] = CandContent[operations[i].source_path]

(***************************************************************************)
(* Claim on the history tool.                                              *)
(***************************************************************************)
\* C25: whatever the history file held before, after two calls of
\* append_to_history with the same metadata the file is what it was after
\* the first call.
C25_AppendIdempotent ==
    calls = 2 => history_file = after_one
=============================================================================
